---- MODULE Spec2Model ----
(***************************************************************************)
(* Model of DatasetMaker.py: the batch loop that reads every frequency-    *)
(* response CSV of the input directory, normalises the curve, averages it  *)
(* over seven frequency bands, combines the bands into bass / mid / treble *)
(* regions, labels the curve and writes a plot and a copy of the CSV into  *)
(* the directory of the label.                                             *)
(*                                                                         *)
(* Numbers are exact rationals <<numerator, denominator>> in lowest terms  *)
(* with a positive denominator; None is the empty tuple.  The rounding of  *)
(* float64 arithmetic is not part of the model.                            *)
(***************************************************************************)
EXTENDS Integers, Sequences, FiniteSets, TLC

VARIABLES dir, todo, pc, filename, freqs, spl, spl_norm, band_means,
          bass_avg, mid_avg, treble_avg, label, images, csvs

vars == <<dir, todo, pc, filename, freqs, spl, spl_norm, band_means,
          bass_avg, mid_avg, treble_avg, label, images, csvs>>

(***************************************************************************)
(* Bounds of the model.                                                    *)
(***************************************************************************)
\* longest curve of the free-form input family
MaxLen == 3

\* frequencies and levels of the free-form input family: below the first
\* band, on shared band edges, inside bands, on the upper edge of the last
SampleFreqs == {19, 20, 60, 2000, 6000, 12000}
SampleLevels == {0, 7}

\* levels of the one-sample-per-band input family
BandLevels == {0, 6}

(***************************************************************************)
(* Exact rational arithmetic.                                              *)
(***************************************************************************)
None == <<>>

Abs(x) == IF x < 0 THEN -x ELSE x

RECURSIVE GCD(_, _)
GCD(a, b) == IF b = 0 THEN a ELSE GCD(b, a % b)

Rat(n, d) ==
    LET g == GCD(Abs(n), d)
    IN  <<n \div g, d \div g>>

FromInt(n) == <<n, 1>>

RAdd(p, q) == Rat(p[1] * q[2] + q[1] * p[2], p[2] * q[2])

RSub(p, q) == Rat(p[1] * q[2] - q[1] * p[2], p[2] * q[2])

RDiv(p, k) == Rat(p[1], p[2] * k)

RGe(p, q) == p[1] * q[2] >= q[1] * p[2]

RLt(p, q) == p[1] * q[2] < q[1] * p[2]

Zero == FromInt(0)

RECURSIVE SeqSum(_)
SeqSum(s) == IF s = <<>> THEN Zero ELSE RAdd(s[1], SeqSum(Tail(s)))

\* np.mean of a non-empty array
np_mean(s) == RDiv(SeqSum(s), Len(s))

(***************************************************************************)
(* Configuration (lines 10-34).                                            *)
(***************************************************************************)
classes == {"Neutral", "Bright", "V-shape", "Warm"}

\* the keys of the bands dictionary in insertion order
BandNames == <<"sub_bass", "mid_bass", "low_mids", "mids", "upper_mids",
               "presence", "brilliance">>

BandSet == {BandNames[i] : i \in 1..Len(BandNames)}

bands == [sub_bass   |-> <<20, 60>>,
          mid_bass   |-> <<60, 250>>,
          low_mids   |-> <<250, 500>>,
          mids       |-> <<500, 2000>>,
          upper_mids |-> <<2000, 4000>>,
          presence   |-> <<4000, 6000>>,
          brilliance |-> <<6000, 12000>>]

threshold == FromInt(3)

(***************************************************************************)
(* File names are <<base, extension>>; the directory maps each name to the *)
(* content of the file.                                                    *)
(***************************************************************************)
Lower(ext) == IF ext = ".CSV" THEN ".csv" ELSE ext

\* filename.lower().endswith(".csv")
EndsWithCsv(f) == Lower(f[2]) = ".csv"

\* os.path.splitext(filename)[0]
base_name(f) == f[1]

FileNames == {<<"a", ".csv">>, <<"a", ".CSV">>, <<"n", ".txt">>}

BaseNames == {base_name(f) : f \in FileNames}

\* a file pd.read_csv loads as a table of numbers with two columns
Table(curve) == [readable |-> TRUE, cols |-> 2, numeric |-> TRUE, curve |-> curve]

\* a file pd.read_csv loads as a table with a single column
OneColumn == [readable |-> TRUE, cols |-> 1, numeric |-> TRUE, curve |-> <<>>]

\* a file pd.read_csv raises on (empty file, undecodable bytes)
Unreadable == [readable |-> FALSE, cols |-> 0, numeric |-> FALSE, curve |-> <<>>]

\* a two-column table whose second column holds text: np.mean raises
NonNumeric == [readable |-> TRUE, cols |-> 2, numeric |-> FALSE, curve |-> <<>>]

WarmCurve == <<  <<20, 6>>, <<500, 0>>, <<6000, 0>>  >>
BrightCurve == <<  <<20, 0>>, <<500, 0>>, <<6000, 6>>  >>
NoBassCurve == <<  <<500, 0>>, <<6000, 6>>  >>

BatchContents == {Table(WarmCurve), Table(BrightCurve), Table(NoBassCurve),
                  OneColumn, Unreadable, NonNumeric}

\* every curve of at most MaxLen samples over the sample frequencies/levels
FreeCurves ==
    UNION {[1..n -> SampleFreqs \X SampleLevels] : n \in 0..MaxLen}

\* the curve with one sample, of level g[b], on the low edge of every band
\* b of the set S of bands the measurement covers
RECURSIVE BandCurve(_, _, _)
BandCurve(S, g, i) ==
    IF i > Len(BandNames) THEN <<>>
    ELSE LET b == BandNames[i]
         IN  IF b \notin S THEN BandCurve(S, g, i + 1)
             ELSE <<  <<bands[b][1], g[b]>>  >> \o BandCurve(S, g, i + 1)

BandCurves ==
    {BandCurve(S, g, 1) : S \in SUBSET BandSet, g \in [BandSet -> BandLevels]}

OneFile == <<"a", ".csv">>

(***************************************************************************)
(* The steps of the loop body as operators.                                *)
(***************************************************************************)
\* line 48 without the subtraction of the mean
Normalize_raw(s) == [i \in 1..Len(s) |-> FromInt(s[i])]

\* line 48: spl_norm = spl - np.mean(spl)
Normalize(s) ==
    [i \in 1..Len(s) |->
        RSub(FromInt(s[i]), np_mean([j \in 1..Len(s) |-> FromInt(s[j])]))]

\* line 53 with the upper edge included
Mask_closed(fr, low, high) == [i \in 1..Len(fr) |-> fr[i] >= low /\ fr[i] <= high]

\* line 53: mask = (freqs >= low) & (freqs < high)
Mask(fr, low, high) == [i \in 1..Len(fr) |-> fr[i] >= low /\ fr[i] < high]

\* np.any(mask)
np_any(mask) == \E i \in 1..Len(mask) : mask[i]

\* spl_norm[mask]
RECURSIVE Masked(_, _, _)
Masked(s, mask, i) ==
    IF i > Len(s) THEN <<>>
    ELSE IF mask[i] THEN <<s[i]>> \o Masked(s, mask, i + 1)
         ELSE Masked(s, mask, i + 1)

\* lines 53-57 with 0 for a band without samples
BandMean_zero(fr, sn, low, high) ==
    LET mask == [i \in 1..Len(fr) |-> fr[i] >= low /\ fr[i] < high]
    IN  IF np_any(mask) THEN np_mean(Masked(sn, mask, 1)) ELSE Zero

\* lines 53-57: the mean of one band
BandMean(fr, sn, low, high) ==
    LET mask == Mask(fr, low, high)
    IN  IF np_any(mask) THEN np_mean(Masked(sn, mask, 1)) ELSE None

\* lines 50-57: the loop over the bands in the order given
RECURSIVE BandLoop(_, _, _, _, _)
BandLoop(order, i, fr, sn, bm) ==
    IF i > Len(order) THEN bm
    ELSE LET b == order[i]
         IN  BandLoop(order, i + 1, fr, sn,
                 [bm EXCEPT ![b] = BandMean(fr, sn, bands[b][1], bands[b][2])])

NoMeans == [b \in BandSet |-> None]

\* a missing band read as 0
OrZero(x) == IF x = None THEN Zero ELSE x

\* lines 61-65 with a missing band averaged in as 0
CombinePair_zero(x, y) ==
    IF x = None /\ y = None THEN None ELSE RDiv(RAdd(OrZero(x), OrZero(y)), 2)

\* lines 61-65 and 73-76: the average of two bands, or the one present
CombinePair(x, y) ==
    IF x # None /\ y # None THEN RDiv(RAdd(x, y), 2)
    ELSE IF x # None THEN x ELSE y

\* lines 68-70: the mean of the bands that are not None
CombineMid(x, y, z) ==
    LET mid_values == SelectSeq(<<x, y, z>>, LAMBDA m : m # None)
    IN  IF mid_values # <<>> THEN np_mean(mid_values) ELSE None

\* line 79 left out: the label of the file before stays
LabelDefault_stale(prev) == prev

\* line 79: the label before the regions are looked at
LabelDefault(prev) == "Neutral"

\* lines 85-92 with strict comparisons
Cascade_strict(bass_diff, treble_diff) ==
    LET Gt(p, q) == RLt(q, p)
    IN  IF Gt(bass_diff, threshold) /\ Gt(treble_diff, threshold) THEN "V-shape"
        ELSE IF Gt(treble_diff, threshold) THEN "Bright"
        ELSE IF Gt(bass_diff, threshold) THEN "Warm"
        ELSE "Neutral"

\* lines 85-92: the cascade over the two differences
Cascade(bass_diff, treble_diff) ==
    IF RGe(bass_diff, threshold) /\ RGe(treble_diff, threshold) THEN "V-shape"
    ELSE IF RGe(treble_diff, threshold) /\ RLt(bass_diff, threshold) THEN "Bright"
    ELSE IF RGe(bass_diff, threshold) /\ RLt(treble_diff, threshold) THEN "Warm"
    ELSE "Neutral"

\* lines 79-92 with a guard that leaves out the bass
ClassifyRegions_noBassGuard(prev, b, m, t) ==
    IF m # None /\ t # None
    THEN Cascade(RSub(OrZero(b), m), RSub(t, m))
    ELSE "Neutral"

\* lines 79-92 with a guard that gives up only when every region is missing
ClassifyRegions_allMissing(prev, b, m, t) ==
    IF b # None \/ m # None \/ t # None
    THEN Cascade(RSub(OrZero(b), OrZero(m)), RSub(OrZero(t), OrZero(m)))
    ELSE "Neutral"

\* lines 79-92
ClassifyRegions(prev, b, m, t) ==
    IF b # None /\ m # None /\ t # None
    THEN Cascade(RSub(b, m), RSub(t, m))
    ELSE LabelDefault(prev)

(***************************************************************************)
(* Initial states: the output directories exist and are empty (lines       *)
(* 18-20), no file has been looked at.  The input directory is either a    *)
(* batch of files or a single well-formed file with any curve.             *)
(***************************************************************************)
ImgPaths == classes \X BaseNames

CsvPaths == classes \X FileNames

NoFile == <<"", "">>

InitRest ==
    /\ todo = DOMAIN dir
    /\ pc = "loop"
    /\ filename = NoFile
    /\ freqs = <<>>
    /\ spl = <<>>
    /\ spl_norm = <<>>
    /\ band_means = NoMeans
    /\ bass_avg = None
    /\ mid_avg = None
    /\ treble_avg = None
    /\ label = "unset"
    /\ images = [p \in ImgPaths |-> NoFile]
    /\ csvs = [p \in CsvPaths |-> NoFile]

Init ==
    /\ \/ dir \in [FileNames -> BatchContents]
       \/ \E c \in FreeCurves \cup BandCurves : dir = [f \in {OneFile} |-> Table(c)]
    /\ InitRest

(***************************************************************************)
(* The loop (lines 37-118).  os.listdir gives the names in any order.      *)
(***************************************************************************)
LoopVars == <<freqs, spl, spl_norm, band_means, bass_avg, mid_avg, treble_avg, label>>

\* lines 37-39
SkipNonCsv ==
    /\ pc = "loop"
    /\ \E f \in todo :
        /\ ~EndsWithCsv(f)
        /\ todo' = todo \ {f}
        /\ filename' = f
    /\ UNCHANGED <<dir, pc, LoopVars, images, csvs>>

\* line 42 raises: nothing catches it, the script ends
ReadCsvRaises ==
    /\ pc = "loop"
    /\ \E f \in todo :
        /\ EndsWithCsv(f)
        /\ ~dir[f].readable
        /\ todo' = todo \ {f}
        /\ filename' = f
    /\ pc' = "crashed"
    /\ UNCHANGED <<dir, LoopVars, images, csvs>>

\* lines 42-44
SkipFewColumns ==
    /\ pc = "loop"
    /\ \E f \in todo :
        /\ EndsWithCsv(f)
        /\ dir[f].readable
        /\ dir[f].cols < 2
        /\ todo' = todo \ {f}
        /\ filename' = f
    /\ UNCHANGED <<dir, pc, LoopVars, images, csvs>>

\* lines 42-46 on a table of numbers
LoadCurve ==
    /\ pc = "loop"
    /\ \E f \in todo :
        /\ EndsWithCsv(f)
        /\ dir[f].readable
        /\ dir[f].cols >= 2
        /\ dir[f].numeric
        /\ todo' = todo \ {f}
        /\ filename' = f
        /\ freqs' = [i \in 1..Len(dir[f].curve) |-> dir[f].curve[i][1]]
        /\ spl' = [i \in 1..Len(dir[f].curve) |-> dir[f].curve[i][2]]
    /\ pc' = "normalize"
    /\ UNCHANGED <<dir, spl_norm, band_means, bass_avg, mid_avg, treble_avg,
                   label, images, csvs>>

\* lines 42-48 on a table of text: np.mean raises, the script ends
NormalizeRaises ==
    /\ pc = "loop"
    /\ \E f \in todo :
        /\ EndsWithCsv(f)
        /\ dir[f].readable
        /\ dir[f].cols >= 2
        /\ ~dir[f].numeric
        /\ todo' = todo \ {f}
        /\ filename' = f
    /\ pc' = "crashed"
    /\ UNCHANGED <<dir, LoopVars, images, csvs>>

\* line 48
NormalizeStep ==
    /\ pc = "normalize"
    /\ spl_norm' = Normalize(spl)
    /\ pc' = "bands"
    /\ UNCHANGED <<dir, todo, filename, freqs, spl, band_means, bass_avg,
                   mid_avg, treble_avg, label, images, csvs>>

\* lines 50-57
ComputeBandMeans ==
    /\ pc = "bands"
    /\ band_means' = BandLoop(BandNames, 1, freqs, spl_norm, NoMeans)
    /\ pc' = "regions"
    /\ UNCHANGED <<dir, todo, filename, freqs, spl, spl_norm, bass_avg,
                   mid_avg, treble_avg, label, images, csvs>>

\* lines 59-76
CombineRegions ==
    /\ pc = "regions"
    /\ bass_avg' = CombinePair(band_means["sub_bass"], band_means["mid_bass"])
    /\ mid_avg' = CombineMid(band_means["low_mids"], band_means["mids"],
                             band_means["upper_mids"])
    /\ treble_avg' = CombinePair(band_means["presence"], band_means["brilliance"])
    /\ pc' = "classify"
    /\ UNCHANGED <<dir, todo, filename, freqs, spl, spl_norm, band_means,
                   label, images, csvs>>

\* lines 78-92
Classify ==
    /\ pc = "classify"
    /\ label' = ClassifyRegions(label, bass_avg, mid_avg, treble_avg)
    /\ pc' = "savefig"
    /\ UNCHANGED <<dir, todo, filename, freqs, spl, spl_norm, band_means,
                   bass_avg, mid_avg, treble_avg, images, csvs>>

\* lines 94-114: the plot is written to <label>/<base name>.png
SavePlot ==
    /\ pc = "savefig"
    /\ images' = [images EXCEPT ![<<label, base_name(filename)>>] = filename]
    /\ pc' = "copy"
    /\ UNCHANGED <<dir, todo, filename, LoopVars, csvs>>

\* lines 116-118: the file is copied to <label>/<filename>
CopyCsv ==
    /\ pc = "copy"
    /\ csvs' = [csvs EXCEPT ![<<label, filename>>] = filename]
    /\ pc' = "loop"
    /\ UNCHANGED <<dir, todo, filename, LoopVars, images>>

\* the loop runs out of names
Finish ==
    /\ pc = "loop"
    /\ todo = {}
    /\ pc' = "done"
    /\ UNCHANGED <<dir, todo, filename, LoopVars, images, csvs>>

Next ==
    \/ SkipNonCsv
    \/ ReadCsvRaises
    \/ SkipFewColumns
    \/ LoadCurve
    \/ NormalizeRaises
    \/ NormalizeStep
    \/ ComputeBandMeans
    \/ CombineRegions
    \/ Classify
    \/ SavePlot
    \/ CopyCsv
    \/ Finish

Spec == Init /\ [][Next]_vars

TypeOK ==
    /\ pc \in {"loop", "normalize", "bands", "regions", "classify", "savefig",
               "copy", "done", "crashed"}
    /\ todo \subseteq DOMAIN dir
    /\ label \in classes \cup {"unset"}

(***************************************************************************)
(* What the specification says the steps compute, stated over index sets.  *)
(***************************************************************************)
RECURSIVE SetSum(_, _)
SetSum(f, I) ==
    IF I = {} THEN Zero
    ELSE LET i == CHOOSE j \in I : TRUE
         IN  RAdd(f[i], SetSum(f, I \ {i}))

SetMean(f, I) == RDiv(SetSum(f, I), Cardinality(I))

ExpectedNorm(curve) ==
    LET lv == [i \in 1..Len(curve) |-> FromInt(curve[i][2])]
    IN  [i \in 1..Len(curve) |-> RSub(lv[i], SetMean(lv, 1..Len(curve)))]

InBand(f, b) == bands[b][1] <= f /\ f < bands[b][2]

ExpectedBandMean(fr, sn, b) ==
    LET I == {i \in 1..Len(fr) : InBand(fr[i], b)}
    IN  IF I = {} THEN None ELSE SetMean(sn, I)

ExpectedRegion(bm, S) ==
    LET D == {b \in S : bm[b] # None}
    IN  IF D = {} THEN None ELSE SetMean(bm, D)

BassBands == {"sub_bass", "mid_bass"}
MidBands == {"low_mids", "mids", "upper_mids"}
TrebleBands == {"presence", "brilliance"}

Emphasised(x, m) == RGe(RSub(x, m), threshold)

ExpectedLabel(b, m, t) ==
    IF b = None \/ m = None \/ t = None THEN "Neutral"
    ELSE CASE Emphasised(b, m) /\ Emphasised(t, m) -> "V-shape"
           [] ~Emphasised(b, m) /\ Emphasised(t, m) -> "Bright"
           [] Emphasised(b, m) /\ ~Emphasised(t, m) -> "Warm"
           [] ~Emphasised(b, m) /\ ~Emphasised(t, m) -> "Neutral"

ExpectedBands(curve) ==
    LET fr == [i \in 1..Len(curve) |-> curve[i][1]]
    IN  [b \in BandSet |-> ExpectedBandMean(fr, ExpectedNorm(curve), b)]

ExpectedLabelOf(curve) ==
    LET bm == ExpectedBands(curve)
    IN  ExpectedLabel(ExpectedRegion(bm, BassBands), ExpectedRegion(bm, MidBands),
                      ExpectedRegion(bm, TrebleBands))

(***************************************************************************)
(* Where the loop body stands for the current file.                        *)
(***************************************************************************)
Normalized == pc \in {"bands", "regions", "classify", "savefig", "copy"}
Aggregated == pc \in {"regions", "classify", "savefig", "copy"}
Combined == pc \in {"classify", "savefig", "copy"}
Classified == pc \in {"savefig", "copy"}

AllDefined == bass_avg # None /\ mid_avg # None /\ treble_avg # None
SomeDefined == bass_avg # None \/ mid_avg # None \/ treble_avg # None
SomeUndefined == ~AllDefined

\* C1: when Bass, Mid and Treble are all defined the label is one of the
\* four classes and is V-shape, Bright, Warm or Neutral exactly in the
\* quadrant of (Bass - Mid, Treble - Mid) cut by the threshold, a
\* difference equal to the threshold counting as emphasised.
C1_Classifier ==
    (Classified /\ AllDefined) =>
        LET B == Emphasised(bass_avg, mid_avg)
            T == Emphasised(treble_avg, mid_avg)
        IN  /\ label \in classes
            /\ (label = "V-shape") <=> (B /\ T)
            /\ (label = "Bright") <=> (T /\ ~B)
            /\ (label = "Warm") <=> (B /\ ~T)
            /\ (label = "Neutral") <=> (~B /\ ~T)

\* a bass difference of exactly the threshold is labelled Warm
C1_Witness ==
    /\ Classified /\ AllDefined
    /\ RSub(bass_avg, mid_avg) = threshold
    /\ RLt(RSub(treble_avg, mid_avg), threshold)
    /\ label = "Warm"

\* C2: when at least one of Bass, Mid, Treble is undefined the
\* classification step can be taken (it raises nothing) and the label it
\* gives is Neutral whatever the defined regions are.
C2_UndefinedIsNeutral ==
    /\ (pc = "classify" /\ SomeUndefined) => ENABLED Classify
    /\ (Classified /\ SomeUndefined) => label = "Neutral"

\* Bass undefined and a treble emphasis that would otherwise mean Bright
C2_Witness ==
    /\ Classified
    /\ bass_avg = None /\ mid_avg # None /\ treble_avg # None
    /\ Emphasised(treble_avg, mid_avg)
    /\ label = "Neutral"

\* C3 as stated: a curve with at least one defined region is labelled
\* Neutral only by the cascade, that is with all three regions defined and
\* neither difference reaching the threshold.
C3_FallbackOnlyWhenAllUndefined ==
    (Classified /\ SomeDefined /\ label = "Neutral") =>
        /\ AllDefined
        /\ ~Emphasised(bass_avg, mid_avg)
        /\ ~Emphasised(treble_avg, mid_avg)

\* C3 amended: a curve with some region defined and some region undefined
\* is sent to Neutral by the fallback.
C3_FallbackWhenAnyUndefined ==
    (Classified /\ SomeDefined /\ SomeUndefined) => label = "Neutral"

\* Treble undefined and a bass emphasis that would otherwise mean Warm
C3_Witness ==
    /\ Classified
    /\ treble_avg = None /\ bass_avg # None /\ mid_avg # None
    /\ Emphasised(bass_avg, mid_avg)
    /\ label = "Neutral"

SameFreq(f) == Len(freqs) >= 1 /\ \A i \in 1..Len(freqs) : freqs[i] = f

DefinedBands == {b \in BandSet : band_means[b] # None}

\* C4: the band intervals are ascending and adjacent, every sample is in
\* the mask of at most one band, a sample on a shared edge is in the upper
\* band only, and a sample below 20 or at/above 12000 is in no band.
C4_BandsDisjoint ==
    Aggregated =>
        /\ \A k \in 1..(Len(BandNames) - 1) :
              /\ bands[BandNames[k]][1] < bands[BandNames[k]][2]
              /\ bands[BandNames[k]][2] = bands[BandNames[k + 1]][1]
        /\ \A i \in 1..Len(freqs) :
              LET In == {b \in BandSet : Mask(freqs, bands[b][1], bands[b][2])[i]}
              IN  /\ Cardinality(In) <= 1
                  /\ freqs[i] = 60 => In = {"mid_bass"}
                  /\ freqs[i] = 2000 => In = {"upper_mids"}
                  /\ (freqs[i] < 20 \/ freqs[i] >= 12000) => In = {}
        /\ \A f \in SampleFreqs :
              SameFreq(f) =>
                  /\ Cardinality(DefinedBands) <= 1
                  /\ f = 60 => DefinedBands = {"mid_bass"}
                  /\ f = 2000 => DefinedBands = {"upper_mids"}
                  /\ (f < 20 \/ f >= 12000) => DefinedBands = {}

\* a sample at 60 Hz gave mid_bass a mean and sub_bass none
C4_Witness ==
    /\ Aggregated
    /\ \E i \in 1..Len(freqs) : freqs[i] = 60
    /\ band_means["mid_bass"] # None
    /\ band_means["sub_bass"] = None

RECURSIVE Reverse(_)
Reverse(s) == IF s = <<>> THEN <<>> ELSE Reverse(Tail(s)) \o <<s[1]>>

\* C5: every band mean is None exactly when no sample has low <= f < high
\* and is otherwise the mean of the normalized levels of those samples;
\* evaluating the bands in the opposite order gives the same means.
C5_BandMean ==
    Aggregated =>
        /\ \A b \in BandSet :
              /\ band_means[b] = ExpectedBandMean(freqs, spl_norm, b)
              /\ (band_means[b] = None) <=>
                     ~(\E i \in 1..Len(freqs) : InBand(freqs[i], b))
        /\ BandLoop(Reverse(BandNames), 1, freqs, spl_norm, NoMeans) = band_means

\* one band averages two samples of different levels, another has none
C5_Witness ==
    /\ Aggregated
    /\ \E b \in BandSet : \E i, j \in 1..Len(freqs) :
          /\ i # j /\ InBand(freqs[i], b) /\ InBand(freqs[j], b)
          /\ spl_norm[i] # spl_norm[j]
          /\ band_means[b] # None
    /\ \E b \in BandSet : band_means[b] = None

\* C6: each region is the mean of its defined bands, the single defined
\* band when only one is defined, and None only when none is defined.
C6_RegionCombine ==
    Combined =>
        /\ bass_avg = ExpectedRegion(band_means, BassBands)
        /\ mid_avg = ExpectedRegion(band_means, MidBands)
        /\ treble_avg = ExpectedRegion(band_means, TrebleBands)
        /\ \A S \in {BassBands, TrebleBands} : \A b \in S :
              (\A o \in S \ {b} : band_means[o] = None) =>
                  (IF S = BassBands THEN bass_avg ELSE treble_avg) = band_means[b]
        /\ (mid_avg = None) <=> (\A b \in MidBands : band_means[b] = None)

\* Bass from mid_bass alone, Mid from two of three bands, Treble from both
C6_Witness ==
    /\ Combined
    /\ band_means["sub_bass"] = None
    /\ band_means["mid_bass"] \notin {None, Zero}
    /\ bass_avg = band_means["mid_bass"]
    /\ Cardinality({b \in MidBands : band_means[b] # None}) = 2
    /\ mid_avg # None
    /\ \A b \in TrebleBands : band_means[b] # None
    /\ treble_avg # None

Flat == Len(spl) >= 1 /\ \A i \in 1..Len(spl) : spl[i] = spl[1]

Processed(f) == EndsWithCsv(f) /\ dir[f].readable /\ dir[f].cols >= 2

\* a .csv that loads as a table of numbers with at least two columns
WellFormed(f) == Processed(f) /\ dir[f].numeric

\* the label directories that hold the plot drawn for f / the copy of f
ImageDirs(f) == {l \in classes : images[<<l, base_name(f)>>] = f}
CopyDirs(f) == {l \in classes : csvs[<<l, f>>] = f}

\* C7: when the loop has run to its end, every processed file has exactly
\* one plot and exactly one copy, both in the directory of one label, and
\* every skipped file has neither.
C7_OneImageOneCopy ==
    pc = "done" =>
        \A f \in DOMAIN dir :
            IF Processed(f)
            THEN /\ Cardinality(ImageDirs(f)) = 1
                 /\ Cardinality(CopyDirs(f)) = 1
                 /\ ImageDirs(f) = CopyDirs(f)
            ELSE ImageDirs(f) = {} /\ CopyDirs(f) = {}

\* C8: no file stops the batch, and when the script has ended every
\* well-formed .csv of the directory is archived under a label.
C8_BatchNeverStops ==
    /\ pc # "crashed"
    /\ pc \in {"done", "crashed"} =>
           \A f \in DOMAIN dir : WellFormed(f) => CopyDirs(f) # {}

\* C9: whatever was processed before and in whatever order, the normalized
\* curve, band means, region means and label of the current file are those
\* of its own curve, and every archived file lies under the label of its
\* own curve.
C9_NoCarryOver ==
    LET curve == dir[filename].curve
        bm == ExpectedBands(curve)
    IN  /\ Normalized => spl_norm = ExpectedNorm(curve)
        /\ Aggregated => band_means = bm
        /\ Combined => /\ bass_avg = ExpectedRegion(bm, BassBands)
                       /\ mid_avg = ExpectedRegion(bm, MidBands)
                       /\ treble_avg = ExpectedRegion(bm, TrebleBands)
        /\ Classified => label = ExpectedLabelOf(curve)
        /\ \A f \in DOMAIN dir :
              /\ CopyDirs(f) \subseteq {ExpectedLabelOf(dir[f].curve)}
              /\ ImageDirs(f) \subseteq {ExpectedLabelOf(dir[f].curve)}

\* a curve without bass is labelled Neutral right after a Warm curve
C9_Witness ==
    /\ Classified
    /\ dir[filename] = Table(NoBassCurve)
    /\ \E g \in DOMAIN dir : g # filename /\ CopyDirs(g) = {"Warm"}
    /\ label = "Neutral"
====
